---- MODULE Spec2Model ----
(***************************************************************************)
(* pyminio: an os-like facade (mkdirs, listdir, exists, rmdir, rm, cp, mv, *)
(* get, put_data) over a bucket/key object store.                          *)
(*                                                                         *)
(* A path or key is a sequence of one-character strings, so that the       *)
(* regular expression of Match, str.replace and os.path.join can be        *)
(* computed character by character as Python computes them.                *)
(***************************************************************************)
EXTENDS Integers, Sequences, FiniteSets, TLC

VARIABLES buckets, objects, pc, last, run

vars == <<buckets, objects, pc, last, run>>

-----------------------------------------------------------------------------
(* Strings *)

SEP == "/"

ROOT == <<SEP>>

EMPTY == <<>>

StartsWithAt(s, p, i) ==
    /\ i + Len(p) - 1 <= Len(s)
    /\ \A j \in 1..Len(p) : s[i + j - 1] = p[j]

StartsWith(s, p) == StartsWithAt(s, p, 1)

EndsWith(s, p) == Len(p) <= Len(s) /\ StartsWithAt(s, p, Len(s) - Len(p) + 1)

\* s[i:] of Python, with i counted from 1
Drop(s, i) == SubSeq(s, i, Len(s))

\* 0 when SEP does not occur in s
FirstSep(s) ==
    IF \E i \in 1..Len(s) : s[i] = SEP
    THEN CHOOSE i \in 1..Len(s) : s[i] = SEP /\ \A j \in 1..(i - 1) : s[j] # SEP
    ELSE 0

\* str.rfind('/') + 1: 0 when SEP does not occur in s
LastSep(s) ==
    IF \E i \in 1..Len(s) : s[i] = SEP
    THEN CHOOSE i \in 1..Len(s) : s[i] = SEP /\ \A j \in (i + 1)..Len(s) : s[j] # SEP
    ELSE 0

\* re.sub(r'/+', r'/', s)
RECURSIVE CollapseSeps(_)
CollapseSeps(s) ==
    IF Len(s) <= 1 THEN s
    ELSE IF s[1] = SEP /\ s[2] = SEP THEN CollapseSeps(Tail(s))
    ELSE <<s[1]>> \o CollapseSeps(Tail(s))

\* s.replace(old, ''): every non-overlapping occurrence of old, scanning from
\* the left, is removed
RECURSIVE ReplaceAll(_, _)
ReplaceAll(s, old) ==
    IF old = EMPTY \/ s = EMPTY THEN s
    ELSE IF StartsWith(s, old) THEN ReplaceAll(Drop(s, Len(old) + 1), old)
    ELSE <<s[1]>> \o ReplaceAll(Tail(s), old)

\* posixpath.join(a, b)
join(a, b) ==
    IF b # EMPTY /\ b[1] = SEP THEN b
    ELSE IF a = EMPTY \/ a[Len(a)] = SEP THEN a \o b
    ELSE a \o <<SEP>> \o b

\* posixpath.basename(p)
basename(p) == Drop(p, LastSep(p) + 1)

RECURSIVE RStripSeps(_)
RStripSeps(s) ==
    IF s # EMPTY /\ s[Len(s)] = SEP THEN RStripSeps(SubSeq(s, 1, Len(s) - 1)) ELSE s

\* posixpath.dirname(p)
dirname(p) ==
    LET head == SubSeq(p, 1, LastSep(p))
    IN  IF head # EMPTY /\ (\E i \in 1..Len(head) : head[i] # SEP)
        THEN RStripSeps(head)
        ELSE head

\* posixpath.normpath(p) on paths without "." and ".." components: repeated
\* and trailing separators go, the empty path becomes "."
normpath(p) ==
    IF p = EMPTY THEN <<".">>
    ELSE LET c == CollapseSeps(p)
         IN  IF c = ROOT THEN ROOT ELSE RStripSeps(c)

-----------------------------------------------------------------------------
(* Match *)

\* Match.path
MatchPath(path) == CollapseSeps(path)

\* Match.is_root
PathIsRoot(path) == MatchPath(path) = ROOT

\* PATH_STRUCTURE.match(self.path) and the groups it yields.  re.match anchors
\* at the start only.  bucket is lazy: it ends at the first separator after
\* the leading one.  prefix is greedy: it ends at the last separator of the
\* rest.  filename is .+[^/], at least two characters; when it cannot match,
\* the optional group is skipped and the match still succeeds.
PATH_STRUCTURE(p) ==
    IF p = EMPTY \/ p[1] # SEP THEN [ok |-> FALSE]
    ELSE LET r1 == Tail(p)
             i  == FirstSep(r1)
         IN  IF i = 0 THEN [ok |-> FALSE]
             ELSE LET rest == Drop(r1, i + 1)
                      j    == LastSep(rest)
                      tl   == Drop(rest, j + 1)
                  IN  [ok       |-> TRUE,
                       bucket   |-> SubSeq(r1, 1, i - 1),
                       prefix   |-> SubSeq(rest, 1, j),
                       filename |-> IF Len(tl) >= 2 THEN tl ELSE EMPTY]

\* Match.__init__ / Match._get_match: ok = FALSE stands for the ValueError
Match(path) ==
    LET p == MatchPath(path)
    IN  IF p = ROOT
        THEN [ok |-> TRUE, path |-> p, bucket |-> EMPTY, prefix |-> EMPTY,
              filename |-> EMPTY]
        ELSE LET m == PATH_STRUCTURE(p)
             IN  IF m.ok
                 THEN [ok |-> TRUE, path |-> p, bucket |-> m.bucket,
                       prefix |-> m.prefix, filename |-> m.filename]
                 ELSE [ok |-> FALSE, path |-> p, bucket |-> EMPTY,
                       prefix |-> EMPTY, filename |-> EMPTY]

is_root(m) == m.path = ROOT

relative_path(m) == join(m.prefix, m.filename)

is_bucket(m) == relative_path(m) = EMPTY

is_dir(m) == m.filename = EMPTY

is_file(m) == ~is_dir(m)

\* Match.infer_operation_destination: ok = FALSE stands for the ValueError
infer_operation_destination(src, dst) ==
    IF ~is_file(src) THEN [dst EXCEPT !.ok = FALSE]
    ELSE IF is_file(dst) THEN dst
    ELSE Match(join(dst.path, src.filename))

-----------------------------------------------------------------------------
(* The object store (the minio client the facade drives) *)

\* An execution environment threaded through a handler: the store (bk, ob),
\* the pending exception (err, "none" when there is none), the value
\* returned (ret), the number of store calls made so far (calls), the store
\* call that fails with a store-side error (fail, 0 for none) and the
\* mutating store calls made so far (log).
Env(bk, ob, fail) ==
    [bk |-> bk, ob |-> ob, err |-> "none", ret |-> FALSE, calls |-> 0,
     fail |-> fail, log |-> <<>>]

Ok(E) == E.err = "none"

Raise(E, e) == [E EXCEPT !.err = e]

Ret(E, v) == [E EXCEPT !.ret = v]

\* Every store call is a remote call: the one numbered E.fail raises
Call(E) ==
    LET n == E.calls + 1
    IN  [E EXCEPT !.calls = n,
                  !.err = IF n = E.fail THEN "StoreError" ELSE "none"]

Logged(E, ev) == [E EXCEPT !.log = Append(@, ev)]

KeysOf(ob, b) == {x[2] : x \in {y \in DOMAIN ob : y[1] = b}}

Without(ob, gone) == [x \in (DOMAIN ob) \ gone |-> ob[x]]

With(ob, x, d) == [y \in (DOMAIN ob) \cup {x} |-> IF y = x THEN d ELSE ob[y]]

\* Order of the characters, for the store's native (lexicographic) listing
Alphabet == <<".", "/", "a", "b", "c", "f", "g">>

Rank(c) == CHOOSE i \in 1..Len(Alphabet) : Alphabet[i] = c

RECURSIVE LexLess(_, _)
LexLess(s, t) ==
    IF t = EMPTY THEN FALSE
    ELSE IF s = EMPTY THEN TRUE
    ELSE IF s[1] = t[1] THEN LexLess(Tail(s), Tail(t))
    ELSE Rank(s[1]) < Rank(t[1])

RECURSIVE SortedSeq(_)
SortedSeq(S) ==
    IF S = {} THEN <<>>
    ELSE LET m == CHOOSE x \in S : \A y \in S \ {x} : LexLess(x, y)
         IN  <<m>> \o SortedSeq(S \ {m})

\* The entry a key yields in a listing of prefix, one level deep: the key
\* itself, or the common prefix up to the next separator
EntryOf(k, prefix) ==
    LET rest == Drop(k, Len(prefix) + 1)
        i    == FirstSep(rest)
    IN  IF i = 0 THEN k ELSE prefix \o SubSeq(rest, 1, i)

\* minio_obj.list_objects(bucket_name, prefix), non recursive: the objects
\* and common prefixes one level below prefix.  A directory does not list
\* itself.  Entries whose name ends with the separator have is_dir set.
\* Time stamps are not modelled: the result is in the store's native order.
list_objects(E, b, prefix) ==
    LET e == Call(E)
    IN  IF ~Ok(e) THEN e
        ELSE IF b = EMPTY THEN Raise(e, "InvalidBucketError")
        ELSE IF b \notin e.bk THEN Raise(e, "NoSuchBucket")
        ELSE LET ks    == {k \in KeysOf(e.ob, b) : StartsWith(k, prefix) /\ k # prefix}
                 names == {EntryOf(k, prefix) : k \in ks}
                 sorted == SortedSeq(names)
             IN  Ret(e, [i \in 1..Len(sorted) |->
                              [object_name |-> sorted[i], bucket_name |-> b,
                               is_dir |-> EndsWith(sorted[i], <<SEP>>)]])

\* minio_obj.list_buckets()
list_buckets(E) ==
    LET e == Call(E)
    IN  IF ~Ok(e) THEN e ELSE Ret(e, SortedSeq(e.bk))

\* minio_obj.bucket_exists(bucket_name)
bucket_exists(E, b) ==
    LET e == Call(E)
    IN  IF ~Ok(e) THEN e
        ELSE IF b = EMPTY THEN Raise(e, "InvalidBucketError")
        ELSE Ret(e, b \in e.bk)

\* minio_obj.make_bucket(bucket_name)
make_bucket(E, b) ==
    LET e == Call(E)
    IN  IF ~Ok(e) THEN e
        ELSE IF b = EMPTY THEN Raise(e, "InvalidBucketError")
        ELSE IF b \in e.bk THEN Raise(e, "BucketAlreadyOwnedByYou")
        ELSE Logged([e EXCEPT !.bk = @ \cup {b}], [op |-> "make_bucket", b |-> b, k |-> EMPTY])

\* minio_obj.put_object(bucket_name, object_name, data, length)
put_object(E, b, k, d) ==
    LET e == Call(E)
    IN  IF ~Ok(e) THEN e
        ELSE IF b = EMPTY THEN Raise(e, "InvalidBucketError")
        ELSE IF k = EMPTY THEN Raise(e, "InvalidArgumentError")
        ELSE IF b \notin e.bk THEN Raise(e, "NoSuchBucket")
        ELSE Logged([e EXCEPT !.ob = With(@, <<b, k>>, d)], [op |-> "put_object", b |-> b, k |-> k])

\* minio_obj.get_object(bucket_name, object_name).data
get_object(E, b, k) ==
    LET e == Call(E)
    IN  IF ~Ok(e) THEN e
        ELSE IF b = EMPTY THEN Raise(e, "InvalidBucketError")
        ELSE IF k = EMPTY THEN Raise(e, "InvalidArgumentError")
        ELSE IF b \notin e.bk THEN Raise(e, "NoSuchBucket")
        ELSE IF <<b, k>> \notin DOMAIN e.ob THEN Raise(e, "NoSuchKey")
        ELSE Ret(e, e.ob[<<b, k>>])

\* minio_obj.stat_object(bucket_name, object_name)
stat_object(E, b, k) == get_object(E, b, k)

\* minio_obj.remove_object(bucket_name, object_name): removing a key that
\* is not there is no error
remove_object(E, b, k) ==
    LET e == Call(E)
    IN  IF ~Ok(e) THEN e
        ELSE IF b = EMPTY THEN Raise(e, "InvalidBucketError")
        ELSE IF k = EMPTY THEN Raise(e, "InvalidArgumentError")
        ELSE IF b \notin e.bk THEN Raise(e, "NoSuchBucket")
        ELSE Logged([e EXCEPT !.ob = Without(@, {<<b, k>>})],
                    [op |-> "remove_object", b |-> b, k |-> k])

\* list(minio_obj.remove_objects(bucket_name, objects_iter))
remove_objects(E, b, ks) ==
    LET e == Call(E)
    IN  IF ~Ok(e) THEN e
        ELSE IF b = EMPTY THEN Raise(e, "InvalidBucketError")
        ELSE IF b \notin e.bk THEN Raise(e, "NoSuchBucket")
        ELSE Logged([e EXCEPT !.ob = Without(@, {<<b, ks[i]>> : i \in 1..Len(ks)})],
                    [op |-> "remove_objects", b |-> b, k |-> ks])

\* minio_obj.remove_bucket(bucket_name)
remove_bucket(E, b) ==
    LET e == Call(E)
    IN  IF ~Ok(e) THEN e
        ELSE IF b = EMPTY THEN Raise(e, "InvalidBucketError")
        ELSE IF b \notin e.bk THEN Raise(e, "NoSuchBucket")
        ELSE IF KeysOf(e.ob, b) # {} THEN Raise(e, "BucketNotEmpty")
        ELSE Logged([e EXCEPT !.bk = @ \ {b}], [op |-> "remove_bucket", b |-> b, k |-> EMPTY])

\* minio_obj.copy_object(bucket_name, object_name, object_source): the
\* source is "<bucket>/<key>".  A copy of an object onto itself goes through
\* here; a store that rejects it is the call that raises (Call).
copy_object(E, b, k, src) ==
    LET e  == Call(E)
        i  == FirstSep(src)
        sb == IF i = 0 THEN src ELSE SubSeq(src, 1, i - 1)
        sk == IF i = 0 THEN EMPTY ELSE Drop(src, i + 1)
    IN  IF ~Ok(e) THEN e
        ELSE IF b = EMPTY THEN Raise(e, "InvalidBucketError")
        ELSE IF k = EMPTY THEN Raise(e, "InvalidArgumentError")
        ELSE IF b \notin e.bk \/ sb \notin e.bk THEN Raise(e, "NoSuchBucket")
        ELSE IF <<sb, sk>> \notin DOMAIN e.ob THEN Raise(e, "NoSuchKey")
        ELSE Logged([e EXCEPT !.ob = With(@, <<b, k>>, e.ob[<<sb, sk>>])],
                    [op |-> "copy_object", b |-> b, k |-> k])

-----------------------------------------------------------------------------
(* Pyminio *)

\* the statements that follow a call: skipped when the call raised
Then(E, rest(_)) == IF Ok(E) THEN rest(E) ELSE E

\* except <caught>: raise <raised>
Except(E, caught, raised) == IF E.err = caught THEN Raise(E, raised) ELSE E

\* _validate_directory: the path must parse and must not be a file path
ValidDirectory(match) == match.ok /\ ~is_file(match)

\* mkdirs that makes the bucket without asking whether it exists
mkdirs_no_bucket_check(E, path) ==
    LET body(match) ==
            IF ~ValidDirectory(match) THEN Raise(E, "ValueError")
            ELSE IF is_root(match) THEN Raise(E, "ValueError")
            ELSE Then(make_bucket(E, match.bucket), LAMBDA e2 :
                 IF is_bucket(match) THEN Ret(e2, FALSE)
                 ELSE put_object(e2, match.bucket, match.prefix, 0))
    IN  body(Match(path))

\* Pyminio.mkdirs
mkdirs(E, path) ==
    LET body(match) ==
            IF ~ValidDirectory(match) THEN Raise(E, "ValueError")
            ELSE IF is_root(match) THEN Raise(E, "ValueError")
            ELSE Then(bucket_exists(E, match.bucket), LAMBDA e1 :
                 Then(IF e1.ret THEN e1 ELSE make_bucket(e1, match.bucket), LAMBDA e2 :
                 IF is_bucket(match) THEN Ret(e2, FALSE)
                 ELSE put_object(e2, match.bucket, match.prefix, 0)))
    IN  body(Match(path))

\* Pyminio._get_objects_at
get_objects_at(E, match) == list_objects(E, match.bucket, match.prefix)

\* Pyminio._get_buckets
get_buckets(E) == list_buckets(E)

\* the first entry of a listing whose object_name is name; 0 when none
FindEntry(objs, name) ==
    IF \E i \in 1..Len(objs) : objs[i].object_name = name
    THEN CHOOSE i \in 1..Len(objs) :
            /\ objs[i].object_name = name
            /\ \A j \in 1..(i - 1) : objs[j].object_name # name
    ELSE 0

\* Pyminio.get
get(E, path) ==
    LET file(match, key) ==
            Except(Then(get_object(E, match.bucket, key), LAMBDA e1 :
                   Then(stat_object(e1, match.bucket, key), LAMBDA e2 :
                   Ret(e2, [kind |-> "File", name |-> match.filename,
                            full_path |-> path, data |-> e1.ret]))),
                   "NoSuchKey", "ValueError")
        folder(match, parent_directory) ==
            Then(list_objects(E, match.bucket, parent_directory), LAMBDA e1 :
                 LET found(i) ==
                         IF i = 0 THEN Raise(e1, "ValueError")
                         ELSE Ret(e1, [kind |-> "Folder",
                                       name |-> join(basename(normpath(
                                                    e1.ret[i].object_name)), EMPTY),
                                       full_path |-> path, data |-> 0])
                 IN  found(FindEntry(e1.ret, relative_path(match))))
        body(match) ==
            IF ~match.ok THEN Raise(E, "ValueError")
            ELSE IF is_bucket(match) THEN Raise(E, "ValueError")
            ELSE IF is_file(match) THEN file(match, relative_path(match))
            ELSE folder(match, join(dirname(normpath(match.prefix)), EMPTY))
    IN  body(Match(path))

\* Pyminio.exists
exists(E, path) ==
    LET caught(e2) ==
            IF e2.err = "ValueError" THEN Ret(Raise(e2, "none"), FALSE)
            ELSE IF ~Ok(e2) THEN e2
            ELSE Ret(e2, TRUE)
        body(match) ==
            IF ~match.ok THEN Ret(E, FALSE)
            ELSE IF is_root(match) THEN Ret(E, TRUE)
            ELSE Then(bucket_exists(E, match.bucket), LAMBDA e1 :
                 IF ~e1.ret THEN Ret(e1, FALSE)
                 ELSE IF is_bucket(match) THEN Ret(e1, TRUE)
                 ELSE caught(get(e1, path)))
    IN  body(Match(path))

\* Pyminio.isdir
isdir(E, path) ==
    LET body(match) ==
            IF ~match.ok THEN Raise(E, "ValueError")
            ELSE Then(exists(E, path), LAMBDA e1 : Ret(e1, e1.ret /\ is_dir(match)))
    IN  body(Match(path))

\* Pyminio.listdir
listdir(E, path, only_files) ==
    LET names(e1, prefix, kept) ==
            Ret(e1, [i \in 1..Len(kept) |-> ReplaceAll(kept[i].object_name, prefix)])
        body(match) ==
            IF ~ValidDirectory(match) THEN Raise(E, "ValueError")
            ELSE IF is_root(match)
            THEN IF only_files THEN Ret(E, <<>>)
                 ELSE Then(get_buckets(E), LAMBDA e1 :
                      Ret(e1, [i \in 1..Len(e1.ret) |-> e1.ret[i] \o <<SEP>>]))
            ELSE Then(get_objects_at(E, match), LAMBDA e1 :
                 names(e1, match.prefix,
                       SelectSeq(e1.ret, LAMBDA obj : ~only_files \/ ~obj.is_dir)))
    IN  body(Match(path))

\* f"/{obj.bucket_name}/{obj.object_name}"
ObjPath(obj) == <<SEP>> \o obj.bucket_name \o <<SEP>> \o obj.object_name

FilesOf(objs) == SelectSeq(objs, LAMBDA obj : ~obj.is_dir)

DirsOf(objs) == SelectSeq(objs, LAMBDA obj : obj.is_dir)

ObjNames(objs) == [i \in 1..Len(objs) |-> objs[i].object_name]

ObjPaths(objs) == [i \in 1..Len(objs) |-> ObjPath(objs[i])]

\* The while loop of Pyminio.rmdir, one iteration per step of the recursion;
\* match is the Match of the path rmdir was called with
RECURSIVE rmdir_loop(_, _, _, _)
rmdir_loop(E, match, dirs_to_delete, recursive) ==
    LET sweep(e1, cur, objs, files, dirs) ==
            IF Len(objs) > 0 /\ ~recursive THEN Raise(e1, "DirectoryNotEmptyError")
            ELSE Then(IF Len(files) > 0 THEN remove_objects(e1, match.bucket, files)
                      ELSE e1, LAMBDA e2 :
                 rmdir_loop(IF Len(dirs) = 0 /\ ~is_bucket(cur)
                            THEN remove_object(e2, cur.bucket, cur.prefix)
                            ELSE e2,
                            match, Tail(dirs_to_delete) \o dirs, recursive))
        iter(current_dir_match) ==
            IF ~current_dir_match.ok THEN Raise(E, "ValueError")
            ELSE Then(get_objects_at(E, current_dir_match), LAMBDA e1 :
                 sweep(e1, current_dir_match, e1.ret, ObjNames(FilesOf(e1.ret)),
                       ObjPaths(DirsOf(e1.ret))))
    IN  IF ~Ok(E) \/ dirs_to_delete = <<>> THEN E
        ELSE iter(Match(Head(dirs_to_delete)))

\* Pyminio.rmdir on a path that is not the root: the loop, then the bucket
rmdir_path(E, path, recursive) ==
    LET body(match) ==
            Then(rmdir_loop(E, match, <<path>>, recursive), LAMBDA e1 :
                 IF is_bucket(match)
                 THEN Except(remove_bucket(e1, match.bucket),
                             "BucketNotEmpty", "DirectoryNotEmptyError")
                 ELSE Ret(e1, FALSE))
    IN  body(Match(path))

\* Pyminio.truncate: the for loop over listdir(ROOT)
RECURSIVE truncate_loop(_, _)
truncate_loop(E, names) ==
    IF ~Ok(E) \/ names = <<>> THEN E
    ELSE truncate_loop(rmdir_path(E, join(ROOT, Head(names)), TRUE), Tail(names))

\* Pyminio.truncate
truncate(E) ==
    Then(listdir(E, ROOT, FALSE), LAMBDA e1 : Ret(truncate_loop(e1, e1.ret), FALSE))

\* rmdir with the recursive flag ignored: always recursive
rmdir_always_recursive(E, path, recursive) ==
    LET body(match) ==
            IF ~ValidDirectory(match) THEN Raise(E, "ValueError")
            ELSE IF is_root(match)
            THEN IF recursive THEN truncate(E) ELSE Raise(E, "DirectoryNotEmptyError")
            ELSE rmdir_path(E, path, TRUE)
    IN  body(Match(path))

\* Pyminio.rmdir
rmdir(E, path, recursive) ==
    LET body(match) ==
            IF ~ValidDirectory(match) THEN Raise(E, "ValueError")
            ELSE IF is_root(match)
            THEN IF recursive THEN truncate(E) ELSE Raise(E, "DirectoryNotEmptyError")
            ELSE rmdir_path(E, path, recursive)
    IN  body(Match(path))

\* Pyminio.rm
rm(E, path, recursive) ==
    LET body(match) ==
            Then(isdir(E, path), LAMBDA e1 :
                 IF e1.ret THEN rmdir(e1, path, recursive)
                 ELSE remove_object(e1, match.bucket, relative_path(match)))
    IN  body(Match(path))

\* s[:-1]
Chop(s) == SubSeq(s, 1, Len(s) - 1)

\* Pyminio._get_destination: returns the Match of the destination
get_destination(E, from_path, to_path) ==
    LET body(from_match, to_match) ==
            IF ~from_match.ok \/ ~to_match.ok THEN Raise(E, "ValueError")
            ELSE IF is_file(from_match)
            THEN Ret(E, infer_operation_destination(from_match, to_match))
            ELSE IF is_dir(to_match)
            THEN Then(exists(E, to_match.path), LAMBDA e1 :
                 IF e1.ret
                 THEN Ret(e1, Match(join(join(to_match.path,
                         basename(Chop(join(from_match.bucket, from_match.prefix)))),
                         EMPTY)))
                 ELSE Ret(e1, to_match))
            ELSE Raise(E, "ValueError")
    IN  body(Match(from_path), Match(to_path))

RECURSIVE cp(_, _, _, _)

\* the copy tasks of the files among objs
CopyTasks(objs, from_path, to_path) ==
    [i \in 1..Len(objs) |->
        [from_path |-> ObjPath(objs[i]),
         to_path   |-> join(to_path, ReplaceAll(ObjPath(objs[i]), from_path))]]

\* The while loop of Pyminio.copy_recursively, one iteration per step of the
\* recursion; returns files_to_copy
RECURSIVE copy_walk(_, _, _, _, _)
copy_walk(E, from_path, to_path, dirs_to_copy, files_to_copy) ==
    LET iter(current_dir_match) ==
            IF ~current_dir_match.ok THEN Raise(E, "ValueError")
            ELSE Then(get_objects_at(E, current_dir_match), LAMBDA e1 :
                 copy_walk(IF Len(DirsOf(e1.ret)) = 0
                           THEN mkdirs(e1, join(to_path,
                                    ReplaceAll(current_dir_match.path, from_path)))
                           ELSE e1,
                           from_path, to_path,
                           Tail(dirs_to_copy) \o ObjPaths(DirsOf(e1.ret)),
                           files_to_copy \o CopyTasks(FilesOf(e1.ret), from_path, to_path)))
    IN  IF ~Ok(E) THEN E
        ELSE IF dirs_to_copy = <<>> THEN Ret(E, files_to_copy)
        ELSE iter(Match(Head(dirs_to_copy)))

\* The for loop of Pyminio.copy_recursively over files_to_copy
RECURSIVE copy_files(_, _)
copy_files(E, files_to_copy) ==
    IF ~Ok(E) \/ files_to_copy = <<>> THEN E
    ELSE copy_files(cp(E, Head(files_to_copy).from_path, Head(files_to_copy).to_path, FALSE),
                    Tail(files_to_copy))

\* Pyminio.copy_recursively
copy_recursively(E, from_path, to_path) ==
    IF ~ValidDirectory(Match(from_path)) THEN Raise(E, "ValueError")
    ELSE Then(copy_walk(E, from_path, to_path, <<from_path>>, <<>>), LAMBDA e1 :
         Ret(copy_files(e1, e1.ret), FALSE))

\* Pyminio.cp
cp(E, from_path, to_path, recursive) ==
    LET body(from_match) ==
            IF ~from_match.ok THEN Raise(E, "ValueError")
            ELSE Then(get_destination(E, from_path, to_path), LAMBDA e1 :
                 IF is_dir(from_match)
                 THEN IF recursive
                      THEN copy_recursively(e1, from_match.path, e1.ret.path)
                      ELSE Raise(e1, "ValueError")
                 ELSE copy_object(e1, e1.ret.bucket, relative_path(e1.ret),
                                  join(from_match.bucket, relative_path(from_match))))
    IN  body(Match(from_path))

\* mv_finally with the check of the destination left out
mv_finally_unchecked(E, from_path, to_match, recursive) ==
    LET closing(x) == IF Ok(x) THEN Raise(x, E.err) ELSE x
    IN  closing(Then(exists(Raise(E, "none"), from_path), LAMBDA x1 :
                IF ~x1.ret THEN x1 ELSE rm(x1, from_path, recursive)))

\* The finally clause of Pyminio.mv, entered with the environment the copy
\* left; an exception of the clause replaces the one of the copy, which is
\* raised again otherwise
mv_finally(E, from_path, to_match, recursive) ==
    LET closing(x) == IF Ok(x) THEN Raise(x, E.err) ELSE x
    IN  closing(Then(exists(Raise(E, "none"), from_path), LAMBDA x1 :
                IF ~x1.ret THEN x1
                ELSE Then(exists(x1, to_match.path), LAMBDA x2 :
                     IF ~x2.ret THEN x2 ELSE rm(x2, from_path, recursive))))

\* what a call that did not reach the copy of mv records
NoMove ==
    [entered |-> FALSE, dest |-> Match(ROOT),
     copied |-> [bk |-> {}, ob |-> <<>>, err |-> "none", calls |-> 0, log |-> <<>>],
     atcopy |-> 0]

\* Pyminio.mv; the value returned records, for the properties, the resolved
\* destination and the environment at the end of the copy attempt
mv(E, from_path, to_path, recursive) ==
    LET copied(e1, e2) ==
            Ret(mv_finally(e2, from_path, e1.ret, recursive),
                [entered |-> TRUE, dest |-> e1.ret,
                 copied |-> [bk |-> e2.bk, ob |-> e2.ob, err |-> e2.err,
                             calls |-> e2.calls, log |-> e2.log],
                 atcopy |-> e1.calls])
        resolved(e1) ==
            IF ~Ok(e1) THEN Ret(e1, NoMove)
            ELSE copied(e1, cp(e1, from_path, to_path, recursive))
    IN  resolved(get_destination(E, from_path, to_path))

\* Pyminio.put_data
put_data(E, path, data) ==
    LET body(match) ==
            IF ~match.ok THEN Raise(E, "ValueError")
            ELSE put_object(E, match.bucket, relative_path(match), data)
    IN  body(Match(path))

-----------------------------------------------------------------------------
(* Bounds and the inputs the operations are called with *)

\* the most objects the store holds
MaxObjects == 2

\* the longest key the store holds
MaxKeyLen == 6

\* the most buckets the store holds
MaxBuckets == 2

\* the store calls of one operation that may be the failing one
MaxFail == 6

\* the longest path string handed to Match
MaxPathLen == 5

nb == <<"b">>
nc == <<"c">>
nfg == <<"f", "g">>
nf == <<"f">>

RECURSIVE DirPath(_)
DirPath(names) ==
    IF names = <<>> THEN ROOT
    ELSE DirPath(SubSeq(names, 1, Len(names) - 1)) \o names[Len(names)] \o <<SEP>>

FilePath(names, f) == DirPath(names) \o f

\* file contents; 0 is the empty content of a directory marker
Data == {1, 2}

DirPaths == {DirPath(<<nb>>), DirPath(<<nb, nb>>), DirPath(<<nb, nb, nb>>),
             DirPath(<<nc>>), DirPath(<<nc, nb>>)}

FilePaths == {FilePath(<<nb>>, nfg), FilePath(<<nb, nb>>, nfg),
              FilePath(<<nb, nb, nb>>, nfg), FilePath(<<nc>>, nfg)}

Paths == DirPaths \cup FilePaths \cup {ROOT}

\* file paths whose last component is one character long
ShortPaths == {FilePath(<<nb>>, nf), FilePath(<<nb, nb>>, nf)}

SrcPaths == {FilePath(<<nb>>, nfg), FilePath(<<nb, nb>>, nfg),
             DirPath(<<nb>>), DirPath(<<nb, nb>>)}

DstPaths == {DirPath(<<nb>>), DirPath(<<nb, nb>>), DirPath(<<nc>>),
             FilePath(<<nb, nb>>, nfg)}

InBounds(E) ==
    /\ Cardinality(DOMAIN E.ob) <= MaxObjects
    /\ Cardinality(E.bk) <= MaxBuckets
    /\ \A x \in DOMAIN E.ob : Len(x[2]) <= MaxKeyLen

-----------------------------------------------------------------------------
(* The state machine: a client calls one operation at a time *)

NoArgs == [from |-> EMPTY, to |-> EMPTY, rec |-> FALSE, data |-> 0, fail |-> 0,
           only |-> FALSE]

\* no rmdir is under way
NoRun == [at |-> "none", path |-> EMPTY, queue |-> <<>>, cur |-> EMPTY,
          files |-> <<>>, dirs |-> <<>>, listed |-> FALSE, raced |-> FALSE,
          late |-> FALSE, bk0 |-> {}, ob0 |-> <<>>, log |-> <<>>,
          to |-> EMPTY, tasks |-> <<>>, seen |-> {}, again |-> FALSE]

\* the call of an operation: E is what the handler made of the store
Finish(name, args, E) ==
    /\ pc = "idle"
    /\ InBounds(E)
    /\ buckets' = E.bk
    /\ objects' = E.ob
    /\ pc' = "done"
    /\ last' = [op |-> name, args |-> args, err |-> E.err,
                ret |-> IF name = "mv" THEN E.ret ELSE NoMove,
                bk0 |-> buckets, ob0 |-> objects, log |-> E.log,
                calls |-> E.calls]
    /\ UNCHANGED run

Here(fail) == Env(buckets, objects, fail)

PutData ==
    \E p \in FilePaths, d \in Data :
        Finish("put_data", [NoArgs EXCEPT !.from = p, !.data = d],
               put_data(Here(0), p, d))

MkDirs ==
    \E p \in DirPaths \cup {ROOT} :
        Finish("mkdirs", [NoArgs EXCEPT !.from = p], mkdirs(Here(0), p))

RmDir ==
    \E p \in DirPaths \cup {ROOT}, r \in BOOLEAN :
        Finish("rmdir", [NoArgs EXCEPT !.from = p, !.rec = r], rmdir(Here(0), p, r))

Rm ==
    \E p \in Paths, r \in BOOLEAN :
        Finish("rm", [NoArgs EXCEPT !.from = p, !.rec = r], rm(Here(0), p, r))

CopyRecursively ==
    \E f \in DirPaths, t \in DirPaths :
        Finish("copy_recursively", [NoArgs EXCEPT !.from = f, !.to = t],
               copy_recursively(Here(0), f, t))

Cp ==
    \E f \in SrcPaths, t \in DstPaths, r \in BOOLEAN, n \in 0..MaxFail :
        Finish("cp", [NoArgs EXCEPT !.from = f, !.to = t, !.rec = r, !.fail = n],
               cp(Here(n), f, t, r))

Mv ==
    \E f \in SrcPaths, t \in DstPaths, r \in BOOLEAN, n \in 0..MaxFail :
        Finish("mv", [NoArgs EXCEPT !.from = f, !.to = t, !.rec = r, !.fail = n],
               mv(Here(n), f, t, r))

\* the caller takes the result; the next call can be made
Done ==
    /\ pc = "done"
    /\ pc' = "idle"
    /\ last' = [op |-> "none", args |-> NoArgs, err |-> "none", ret |-> NoMove,
                bk0 |-> buckets, ob0 |-> objects, log |-> <<>>, calls |-> 0]
    /\ run' = NoRun
    /\ UNCHANGED <<buckets, objects>>

-----------------------------------------------------------------------------
Init ==
    /\ buckets = {}
    /\ objects = <<>>
    /\ pc = "idle"
    /\ last = [op |-> "none", args |-> NoArgs, err |-> "none", ret |-> NoMove,
               bk0 |-> {}, ob0 |-> <<>>, log |-> <<>>, calls |-> 0]
    /\ run = NoRun

Next ==
    \/ PutData
    \/ MkDirs
    \/ RmDir
    \/ Rm
    \/ Done

Spec == Init /\ [][Next]_vars

NextCp ==
    \/ PutData
    \/ MkDirs
    \/ CopyRecursively
    \/ Cp
    \/ Done

SpecCp == Init /\ [][NextCp]_vars

NextMv ==
    \/ PutData
    \/ MkDirs
    \/ Mv
    \/ Done

SpecMv == Init /\ [][NextMv]_vars
-----------------------------------------------------------------------------
(* Pyminio.rmdir(path, recursive=True) one store call at a time, with a      *)
(* second client that writes between the calls                               *)

BucketPaths == {DirPath(<<nb>>), DirPath(<<nc>>)}

\* the store call of one step went through as E; r is where rmdir stands
\* after it, "return" when the call is over or an exception leaves it
RmdirStep(E, r) ==
    /\ InBounds(E)
    /\ buckets' = E.bk
    /\ objects' = E.ob
    /\ IF Ok(E) /\ r.at # "return"
       THEN /\ run' = [r EXCEPT !.log = run.log \o E.log]
            /\ UNCHANGED <<pc, last>>
       ELSE /\ run' = [r EXCEPT !.at = "return", !.log = run.log \o E.log]
            /\ pc' = "done"
            /\ last' = [op |-> "rmdir",
                        args |-> [NoArgs EXCEPT !.from = run.path, !.rec = TRUE],
                        err |-> E.err, ret |-> NoMove, bk0 |-> run.bk0,
                        ob0 |-> run.ob0, log |-> run.log \o E.log,
                        calls |-> Len(run.log \o E.log)]

\* rmdir is called on a bucket: dirs_to_delete = [path]
RmdirCall ==
    \E p \in BucketPaths :
        /\ pc = "idle"
        /\ ValidDirectory(Match(p)) /\ ~is_root(Match(p))
        /\ pc' = "rmdir"
        /\ run' = [NoRun EXCEPT !.at = "list", !.path = p, !.queue = <<p>>,
                                !.bk0 = buckets, !.ob0 = objects]
        /\ UNCHANGED <<buckets, objects, last>>

\* the next directory is taken from dirs_to_delete and listed
RmdirList ==
    /\ pc = "rmdir" /\ run.at = "list"
    /\ LET step(e1) ==
               IF ~Ok(e1) THEN RmdirStep(e1, run)
               ELSE RmdirStep(e1, [run EXCEPT !.at = "files",
                                              !.cur = Head(run.queue),
                                              !.queue = Tail(run.queue),
                                              !.files = ObjNames(FilesOf(e1.ret)),
                                              !.dirs = ObjPaths(DirsOf(e1.ret)),
                                              !.listed = TRUE,
                                              !.seen = run.seen \cup {Head(run.queue)},
                                              !.again = run.again
                                                        \/ Head(run.queue) \in run.seen])
       IN  step(get_objects_at(Here(0), Match(Head(run.queue))))

\* the files found are removed and the directories found are queued
RmdirSweep ==
    /\ pc = "rmdir" /\ run.at = "files"
    /\ RmdirStep(IF Len(run.files) > 0
                 THEN remove_objects(Here(0), Match(run.path).bucket, run.files)
                 ELSE Here(0),
                 [run EXCEPT !.at = "marker", !.queue = run.queue \o run.dirs])

\* the marker of a directory that listed no directory is removed
RmdirMarker ==
    /\ pc = "rmdir" /\ run.at = "marker"
    /\ LET step(cur) ==
               RmdirStep(IF Len(run.dirs) = 0 /\ ~is_bucket(cur)
                         THEN remove_object(Here(0), cur.bucket, cur.prefix)
                         ELSE Here(0),
                         [run EXCEPT !.at = IF run.queue = <<>> THEN "bucket"
                                            ELSE "list"])
       IN  step(Match(run.cur))

\* the bucket is removed and rmdir returns
RmdirBucket ==
    /\ pc = "rmdir" /\ run.at = "bucket"
    /\ LET step(match) ==
               RmdirStep(IF is_bucket(match)
                         THEN Except(remove_bucket(Here(0), match.bucket),
                                     "BucketNotEmpty", "DirectoryNotEmptyError")
                         ELSE Here(0),
                         [run EXCEPT !.at = "return"])
       IN  step(Match(run.path))

\* another client puts a file while rmdir is between two store calls
Writer ==
    \E p \in FilePaths, d \in Data :
        LET step(e1) ==
                /\ Ok(e1) /\ InBounds(e1)
                /\ buckets' = e1.bk
                /\ objects' = e1.ob
                /\ run' = [run EXCEPT !.raced = TRUE,
                                      !.late = run.late \/ run.listed]
        IN  /\ pc = "rmdir"
            /\ step(put_data(Here(0), p, d))
            /\ UNCHANGED <<pc, last>>

NextConc ==
    \/ PutData
    \/ MkDirs
    \/ RmdirCall
    \/ RmdirList
    \/ RmdirSweep
    \/ RmdirMarker
    \/ RmdirBucket
    \/ Writer
    \/ Done

SpecConc == Init /\ [][NextConc]_vars
-----------------------------------------------------------------------------
(* The traversals of rmdir(path, recursive=True) and of copy_recursively,    *)
(* one iteration step at a time, with no other client                        *)

\* the trees are built with files of one content: a traversal does not read
\* what a file holds
PutOne ==
    \E p \in FilePaths :
        Finish("put_data", [NoArgs EXCEPT !.from = p, !.data = 1],
               put_data(Here(0), p, 1))

\* rmdir is called on a directory: dirs_to_delete = [path]
RmdirCallDir ==
    \E p \in DirPaths :
        /\ pc = "idle"
        /\ InBounds(Here(0))
        /\ ValidDirectory(Match(p)) /\ ~is_root(Match(p))
        /\ pc' = "rmdir"
        /\ run' = [NoRun EXCEPT !.at = "list", !.path = p, !.queue = <<p>>,
                                !.bk0 = buckets, !.ob0 = objects]
        /\ UNCHANGED <<buckets, objects, last>>

\* the store calls of one step went through as E; r is where
\* copy_recursively stands after them, "return" when the call is over or an
\* exception leaves it
CopyStep(E, r) ==
    /\ buckets' = E.bk
    /\ objects' = E.ob
    /\ IF Ok(E) /\ r.at # "return"
       THEN /\ run' = [r EXCEPT !.log = run.log \o E.log]
            /\ UNCHANGED <<pc, last>>
       ELSE /\ run' = [r EXCEPT !.at = "return", !.log = run.log \o E.log]
            /\ pc' = "done"
            /\ last' = [op |-> "copy_recursively",
                        args |-> [NoArgs EXCEPT !.from = run.path, !.to = run.to],
                        err |-> E.err, ret |-> NoMove, bk0 |-> run.bk0,
                        ob0 |-> run.ob0, log |-> run.log \o E.log,
                        calls |-> Len(run.log \o E.log)]

\* copy_recursively is called: files_to_copy = [], dirs_to_copy = [from_path]
CopyCall ==
    \E f \in DirPaths, t \in DirPaths :
        /\ pc = "idle"
        /\ InBounds(Here(0))
        /\ ValidDirectory(Match(f))
        /\ pc' = "copy"
        /\ run' = [NoRun EXCEPT !.at = "list", !.path = f, !.to = t,
                                !.queue = <<f>>, !.bk0 = buckets,
                                !.ob0 = objects]
        /\ UNCHANGED <<buckets, objects, last>>

\* the next directory is taken from dirs_to_copy and listed; the files found
\* become copy tasks
CopyList ==
    /\ pc = "copy" /\ run.at = "list"
    /\ LET listed(e1) ==
               IF ~Ok(e1) THEN CopyStep(e1, run)
               ELSE CopyStep(e1, [run EXCEPT
                        !.at = "mkdirs",
                        !.cur = Head(run.queue),
                        !.queue = Tail(run.queue),
                        !.dirs = ObjPaths(DirsOf(e1.ret)),
                        !.tasks = run.tasks \o CopyTasks(FilesOf(e1.ret),
                                                         run.path, run.to),
                        !.seen = run.seen \cup {Head(run.queue)},
                        !.again = run.again \/ Head(run.queue) \in run.seen])
           step(current_dir_match) ==
               IF ~current_dir_match.ok
               THEN CopyStep(Raise(Here(0), "ValueError"), run)
               ELSE listed(get_objects_at(Here(0), current_dir_match))
       IN  step(Match(Head(run.queue)))

\* the copy with the directory just listed queued again next to its
\* sub-directories
CopyMkdirs_requeue ==
    /\ pc = "copy" /\ run.at = "mkdirs"
    /\ CopyStep(IF Len(run.dirs) = 0
                THEN mkdirs(Here(0), join(run.to, ReplaceAll(Match(run.cur).path,
                                                             run.path)))
                ELSE Here(0),
                [run EXCEPT !.queue = run.queue \o run.dirs \o <<run.cur>>,
                            !.at = "list"])

\* a directory that listed no directory is made at the destination; the
\* directories found are queued
CopyMkdirs ==
    /\ pc = "copy" /\ run.at = "mkdirs"
    /\ CopyStep(IF Len(run.dirs) = 0
                THEN mkdirs(Here(0), join(run.to, ReplaceAll(Match(run.cur).path,
                                                             run.path)))
                ELSE Here(0),
                [run EXCEPT !.queue = run.queue \o run.dirs,
                            !.at = IF run.queue \o run.dirs = <<>> THEN "files"
                                   ELSE "list"])

\* the for loop over files_to_copy: the next file is copied, or
\* copy_recursively returns
CopyFile ==
    /\ pc = "copy" /\ run.at = "files"
    /\ IF run.tasks = <<>>
       THEN CopyStep(Here(0), [run EXCEPT !.at = "return"])
       ELSE CopyStep(cp(Here(0), Head(run.tasks).from_path,
                        Head(run.tasks).to_path, FALSE),
                     [run EXCEPT !.tasks = Tail(run.tasks)])

\* a step of a traversal under way
WalkStep ==
    \/ RmdirList
    \/ RmdirSweep
    \/ RmdirMarker
    \/ RmdirBucket
    \/ CopyList
    \/ CopyMkdirs
    \/ CopyFile

NextWalk ==
    \/ PutOne
    \/ MkDirs
    \/ RmdirCallDir
    \/ CopyCall
    \/ WalkStep
    \/ Done

\* A traversal under way takes a step.  The steps NextWalk allows from a
\* state where a traversal is under way are those of WalkStep, so within
\* [NextWalk]_vars the steps of Goes are the steps of WalkStep; the first
\* disjunct only shows, without a store call being worked out, that a step
\* can be taken.
Goes ==
    /\ pc \in {"rmdir", "copy"}
    /\ \/ pc' = "done" /\ UNCHANGED <<buckets, objects, last, run>>
       \/ WalkStep

\* the interpreter goes on with a call under way: the loops are sequential
\* code of one thread and every store call returns
SpecWalk == Init /\ [][NextWalk]_vars /\ WF_vars(Goes)
-----------------------------------------------------------------------------
(* Files and listings: put_data, get, listdir and rm on file paths, the ones *)
(* with a last component of one character included                           *)

PutFile ==
    \E p \in FilePaths \cup ShortPaths, d \in Data :
        Finish("put_data", [NoArgs EXCEPT !.from = p, !.data = d],
               put_data(Here(0), p, d))

Get ==
    \E p \in Paths \cup ShortPaths :
        Finish("get", [NoArgs EXCEPT !.from = p], get(Here(0), p))

ListDir ==
    \E p \in DirPaths \cup {ROOT}, o \in BOOLEAN :
        Finish("listdir", [NoArgs EXCEPT !.from = p, !.only = o],
               listdir(Here(0), p, o))

RmFile ==
    \E p \in FilePaths \cup ShortPaths, r \in BOOLEAN :
        Finish("rm", [NoArgs EXCEPT !.from = p, !.rec = r], rm(Here(0), p, r))

NextFile ==
    \/ PutFile
    \/ MkDirs
    \/ Get
    \/ ListDir
    \/ RmFile
    \/ RmDir
    \/ Done

SpecFile == Init /\ [][NextFile]_vars

-----------------------------------------------------------------------------
(* cp on a store within the bounds; the store it leaves may be larger        *)

\* the call of an operation on a store within the bounds: E is what the
\* handler made of the store
FinishFrom(name, args, E) ==
    /\ pc = "idle"
    /\ InBounds(Here(0))
    /\ buckets' = E.bk
    /\ objects' = E.ob
    /\ pc' = "done"
    /\ last' = [op |-> name, args |-> args, err |-> E.err, ret |-> NoMove,
                bk0 |-> buckets, ob0 |-> objects, log |-> E.log,
                calls |-> E.calls]
    /\ UNCHANGED run

CpFrom ==
    \E f \in SrcPaths, t \in DstPaths, r \in BOOLEAN, n \in 0..MaxFail :
        FinishFrom("cp", [NoArgs EXCEPT !.from = f, !.to = t, !.rec = r, !.fail = n],
                   cp(Here(n), f, t, r))

NextCpFrom ==
    \/ PutData
    \/ MkDirs
    \/ CpFrom
    \/ Done

SpecCpFrom == Init /\ [][NextCpFrom]_vars

-----------------------------------------------------------------------------
(* Match on its own: every path string up to MaxPathLen is parsed, and       *)
(* infer_operation_destination is applied to pairs of references             *)

PathChars == {SEP, "b", "f"}

PathStrings == UNION {[1..n -> PathChars] : n \in 0..MaxPathLen}

\* the call of a function of Match: m is the reference it made, m.ok = FALSE
\* the ValueError it raised
Answer(name, args, m) ==
    /\ pc = "idle"
    /\ pc' = "done"
    /\ last' = [op |-> name, args |-> args,
                err |-> IF m.ok THEN "none" ELSE "ValueError",
                ret |-> [NoMove EXCEPT !.dest = m],
                bk0 |-> buckets, ob0 |-> objects, log |-> <<>>, calls |-> 0]
    /\ UNCHANGED <<buckets, objects, run>>

Parse ==
    \E p \in PathStrings :
        Answer("Match", [NoArgs EXCEPT !.from = p], Match(p))

\* src and dst are references, so both paths were accepted by Match
Infer ==
    \E f \in Paths \cup ShortPaths, d \in PathStrings :
        /\ Match(f).ok
        /\ Match(d).ok
        /\ Answer("infer", [NoArgs EXCEPT !.from = f, !.to = d],
                  infer_operation_destination(Match(f), Match(d)))

NextMatch ==
    \/ Parse
    \/ Infer
    \/ Done

SpecMatch == Init /\ [][NextMatch]_vars

-----------------------------------------------------------------------------
(* What the properties read *)

\* the store as it is, and as it was when the last operation was called
Now == Env(buckets, objects, 0)

Before == Env(last.bk0, last.ob0, 0)

Called(op) == pc = "done" /\ last.op = op

Returned(op) == Called(op) /\ last.err = "none"

FromMatch == Match(last.args.from)

ToMatch == Match(last.args.to)

IsDelete(ev) == ev.op \in {"remove_object", "remove_objects", "remove_bucket"}

NoDelete(log) == \A i \in 1..Len(log) : ~IsDelete(log[i])

\* the object x holds in the store what it held before the call
Kept(x) == x \in DOMAIN objects /\ objects[x] = last.ob0[x]

\* the objects at (a file path) or under (a directory path) the match m
ObjectsAt(ob, m) ==
    {x \in DOMAIN ob :
        /\ x[1] = m.bucket
        /\ IF is_file(m) THEN x[2] = relative_path(m) ELSE StartsWith(x[2], m.prefix)}

IsFileKey(k) == ~EndsWith(k, <<SEP>>)

FilesAt(ob, m) == {x \in ObjectsAt(ob, m) : IsFileKey(x[2])}

\* where the object x at or under src belongs at or under dst
Mirror(x, src, dst) ==
    IF is_file(src) THEN <<dst.bucket, relative_path(dst)>>
    ELSE <<dst.bucket, dst.prefix \o Drop(x[2], Len(src.prefix) + 1)>>

\* the failing store call, if any, was one of the copy attempt of mv
FailedInCopyOnly ==
    \/ last.args.fail = 0
    \/ last.args.fail > last.calls
    \/ /\ last.ret.atcopy < last.args.fail
       /\ last.args.fail <= last.ret.copied.calls

-----------------------------------------------------------------------------
(* C1..C5 *)

\* C1: for every existing file f and every directory path d in an existing
\* bucket, the one holding f included, after mv(f, d) has returned the object
\* at d + filename(f) exists with the content f had, and f is gone when it
\* is not that object.
C1_MoveIntoDirectory ==
    (/\ Returned("mv")
     /\ is_file(FromMatch)
     /\ exists(Before, last.args.from).ret
     /\ ToMatch.ok /\ is_dir(ToMatch) /\ ~is_root(ToMatch)
     /\ ToMatch.bucket \in last.bk0)
    => LET dest == join(last.args.to, FromMatch.filename)
           got  == get(Now, dest)
       IN  /\ Ok(got)
           /\ got.ret.data = get(Before, last.args.from).ret.data
           /\ (dest # last.args.from => ~exists(Now, last.args.from).ret)

\* C2: when the copy of mv(from, to, recursive) raised at one of its store
\* calls and mv has ended, every file that was at or under the source still
\* has its content at its source path or at its mirrored destination path.
\* (Stated for a destination that is neither the source, the case of C1, nor
\* under it.)
C2_MoveKeepsDataWhenCopyFails ==
    (/\ Called("mv")
     /\ last.ret.entered
     /\ FailedInCopyOnly
     /\ ~Ok(last.ret.copied)
     /\ ~StartsWith(last.ret.dest.path, FromMatch.path))
    => \A x \in FilesAt(last.ob0, FromMatch) :
           \/ Kept(x)
           \/ LET y == Mirror(x, FromMatch, last.ret.dest)
              IN  y \in DOMAIN objects /\ objects[y] = last.ob0[x]

\* C3: mv issues its deletes after the last store write of the copy attempt,
\* and only if the source and the resolved destination both exist when the
\* attempt has ended; when the copy raised and nothing exists at the resolved
\* destination, there is no delete and every source object is as it was.
C3_MoveDeletesOnlyIfBothExist ==
    (Called("mv") /\ last.ret.entered)
    => LET copied  == Env(last.ret.copied.bk, last.ret.copied.ob, 0)
           src_ex  == exists(copied, last.args.from)
           dst_ex  == exists(copied, last.ret.dest.path)
           written == Len(last.ret.copied.log)
       IN  /\ \A i \in 1..Len(last.log) : IsDelete(last.log[i]) => i > written
           /\ ~NoDelete(last.log) =>
                 /\ Ok(src_ex) /\ src_ex.ret
                 /\ Ok(dst_ex) /\ dst_ex.ret
           /\ (/\ ~Ok(last.ret.copied)
               /\ FailedInCopyOnly
               /\ ~dst_ex.ret)
              => /\ NoDelete(last.log)
                 /\ \A x \in ObjectsAt(last.ob0, FromMatch) : Kept(x)

\* C3 witness: a copy that raised and left nothing at the destination, with
\* the source there
C3_Witness ==
    /\ Called("mv")
    /\ last.ret.entered
    /\ ~Ok(last.ret.copied)
    /\ FailedInCopyOnly
    /\ exists(Before, last.args.from).ret
    /\ ObjectsAt(last.ob0, FromMatch) # {}
    /\ ~exists(Now, last.ret.dest.path).ret
    /\ NoDelete(last.log)

\* C4: rmdir(p, recursive=False) on a directory or bucket with a child raises
\* DirectoryNotEmptyError, deletes nothing and leaves the store as it was;
\* on an existing empty directory or bucket it succeeds and p is gone.
C4_RmdirNonRecursive ==
    (/\ Called("rmdir")
     /\ ~last.args.rec
     /\ ~is_root(FromMatch)
     /\ FromMatch.bucket \in last.bk0)
    => LET children == get_objects_at(Before, FromMatch).ret
       IN  /\ Len(children) > 0 =>
                 /\ last.err = "DirectoryNotEmptyError"
                 /\ NoDelete(last.log)
                 /\ buckets = last.bk0 /\ objects = last.ob0
           /\ (Len(children) = 0 /\ exists(Before, last.args.from).ret) =>
                 /\ last.err = "none"
                 /\ ~exists(Now, last.args.from).ret

\* C4 witness: a non-recursive rmdir of a directory that holds a file has
\* raised and the store is as it was
C4_Witness ==
    /\ Called("rmdir")
    /\ ~last.args.rec
    /\ ~is_bucket(FromMatch)
    /\ FromMatch.bucket \in last.bk0
    /\ Len(get_objects_at(Before, FromMatch).ret) > 0
    /\ last.err = "DirectoryNotEmptyError"
    /\ objects = last.ob0
    /\ FilesAt(objects, FromMatch) # {}

\* C5: when rmdir(p, recursive=True) on a directory that is not the root has
\* returned, no object whose key starts with the prefix of p is left in the
\* bucket and p does not exist.
C5_RmdirRecursiveLeavesNothing ==
    (Returned("rmdir") /\ last.args.rec /\ ~is_root(FromMatch))
    => /\ ObjectsAt(objects, FromMatch) = {}
       /\ ~exists(Now, last.args.from).ret

-----------------------------------------------------------------------------
(* C6 *)

\* rmdir has returned from a call made step by step on a bucket that existed
RmdirReturned ==
    /\ pc = "done" /\ run.at = "return"
    /\ is_bucket(Match(run.path))
    /\ Match(run.path).bucket \in run.bk0

\* without a writer the steps of rmdir do what the call made at once does
RmdirStepsAgree ==
    (RmdirReturned /\ ~run.raced)
    => LET E == rmdir(Env(run.bk0, run.ob0, 0), run.path, TRUE)
       IN  E.bk = buckets /\ E.ob = objects /\ E.err = last.err

\* C6: rmdir('/b/', recursive=True) on an existing bucket ends with the
\* bucket deleted whenever no other writer touched the store during the
\* call; DirectoryNotEmptyError comes out of it only when a writer added an
\* object after a directory was listed; and in every interleaving no object
\* is left in a bucket that was removed.
C6_RecursiveBucketDelete ==
    /\ \A x \in DOMAIN objects : x[1] \in buckets
    /\ RmdirReturned
       => /\ ~run.raced
             => (last.err = "none" /\ Match(run.path).bucket \notin buckets)
          /\ last.err = "DirectoryNotEmptyError" => run.late

-----------------------------------------------------------------------------
(* C7..C10 *)

SeqRange(q) == {q[i] : i \in 1..Len(q)}

\* the names listdir gives for path in the environment E; none when it raises
Listed(E, path) ==
    LET l == listdir(E, path, FALSE)
    IN  IF Ok(l) THEN SeqRange(l.ret) ELSE {}

\* every prefix of the key k that ends with the separator
DirPrefixes(k) == {SubSeq(k, 1, i) : i \in {j \in 1..Len(k) : k[j] = SEP}}

\* the keys (each ending with the separator) of the directories of the
\* tree of the directory match m, m included
DirsAt(ob, m) ==
    {m.prefix} \cup
    {d \in UNION {DirPrefixes(x[2]) : x \in ObjectsAt(ob, m)} : StartsWith(d, m.prefix)}

KeyPath(b, k) == <<SEP>> \o b \o <<SEP>> \o k

\* the destination does not lie in the tree of the source
Apart(src, dst) == ~(src.bucket = dst.bucket /\ StartsWith(dst.prefix, src.prefix))

\* C7: for every source directory src and every destination directory path
\* dst, after cp(src, dst, recursive=True) listdir(dst) has exactly the names
\* of the immediate children of src besides what it listed before, and for
\* each sub-directory s of src listdir(dst + s) has the names of
\* listdir(src + s).  (Stated for a dst that is absent before the call and
\* not in the tree of src.)
C7_CopyThenList ==
    (/\ Returned("cp")
     /\ last.args.rec
     /\ is_dir(FromMatch) /\ is_dir(ToMatch) /\ ~is_root(FromMatch)
     /\ exists(Before, last.args.from).ret
     /\ ~exists(Before, last.args.to).ret
     /\ Apart(FromMatch, ToMatch))
    => /\ Listed(Now, last.args.to) = Listed(Before, last.args.from)
       /\ \A n \in Listed(Before, last.args.from) :
             EndsWith(n, <<SEP>>) =>
                 Listed(Before, last.args.from \o n) \subseteq Listed(Now, last.args.to \o n)

\* C8: copy_recursively(from_path, to_path) copies every file at from_path +
\* r, whatever the depth and the names in r, to to_path + r with its content,
\* and writes no key but these and the markers of the mirrored directories.
\* (Stated for a to_path that is not in the tree of from_path.)
C8_CopyPreservesSuffix ==
    (/\ Returned("copy_recursively")
     /\ ~is_root(FromMatch)
     /\ Apart(FromMatch, ToMatch))
    => /\ \A x \in FilesAt(last.ob0, FromMatch) :
             LET y == Mirror(x, FromMatch, ToMatch)
             IN  y \in DOMAIN objects /\ objects[y] = last.ob0[x]
       /\ \A i \in 1..Len(last.log) :
             last.log[i].op \in {"put_object", "copy_object"} =>
                 /\ last.log[i].b = ToMatch.bucket
                 /\ \/ \E x \in FilesAt(last.ob0, FromMatch) :
                          last.log[i].k = Mirror(x, FromMatch, ToMatch)[2]
                    \/ \E d \in DirsAt(last.ob0, FromMatch) :
                          last.log[i].k = ToMatch.prefix \o Drop(d, Len(FromMatch.prefix) + 1)

\* C9: after copy_recursively(from_path, to_path) has returned, for every
\* directory at from_path + r of the source tree, the empty ones and the
\* ones that hold only files included, isdir(to_path + r) is true.
C9_CopyMirrorsDirectories ==
    (/\ Returned("copy_recursively")
     /\ ~is_root(FromMatch)
     /\ exists(Before, last.args.from).ret)
    => \A d \in DirsAt(last.ob0, FromMatch) :
           isdir(Now, last.args.to \o Drop(d, Len(FromMatch.prefix) + 1)).ret

\* C10: mkdirs is idempotent: for every valid directory path p that is not
\* the root, mkdirs(p) raises nothing, and a second mkdirs(p) raises nothing
\* and leaves the buckets, the objects and the listings of p and of each of
\* its ancestors as the first call left them.
C10_MkdirsIdempotent ==
    (Called("mkdirs") /\ ValidDirectory(FromMatch) /\ ~is_root(FromMatch))
    => LET again == mkdirs(Now, last.args.from)
       IN  /\ last.err = "none"
           /\ Ok(again)
           /\ again.bk = buckets
           /\ again.ob = objects
           /\ \A q \in DirPrefixes(last.args.from) :
                 LET l1 == listdir(Now, q, FALSE)
                     l2 == listdir(Env(again.bk, again.ob, 0), q, FALSE)
                 IN  l1.err = l2.err /\ (Ok(l1) => l1.ret = l2.ret)

\* C10 witness: mkdirs of a directory whose bucket and marker were already
\* there
C10_Witness ==
    /\ Returned("mkdirs")
    /\ ~is_bucket(FromMatch)
    /\ FromMatch.bucket \in last.bk0
    /\ <<FromMatch.bucket, FromMatch.prefix>> \in DOMAIN last.ob0
    /\ <<FromMatch.bucket, FromMatch.prefix>> \in DOMAIN objects

-----------------------------------------------------------------------------
(* C11..C20 *)

\* the bucket of the path string p: what lies between its first two separators
BucketOf(p) == SubSeq(p, 2, FirstSep(Tail(p)))

\* the key of the path string p: what follows its second separator
KeyOf(p) == Drop(p, FirstSep(Tail(p)) + 2)

\* p has the shape /bucket/[prefix/]name and does not end with a separator
IsFilePath(p) ==
    /\ Len(p) >= 4
    /\ p = CollapseSeps(p)
    /\ p[1] = SEP /\ p[2] # SEP
    /\ FirstSep(Tail(p)) # 0
    /\ p[Len(p)] # SEP

\* C11: for every path p of the shape /bucket/[prefix/]name that does not end
\* with a separator, the name being one character long or more, in an
\* existing bucket, and every data, put_data(p, data) followed by get(p)
\* gives a File with that data, named as the last component of p, and the
\* object is stored under the key prefix + name.
C11_PutThenGet ==
    (/\ Called("put_data")
     /\ IsFilePath(last.args.from)
     /\ BucketOf(last.args.from) \in last.bk0)
    => LET p == last.args.from
           x == <<BucketOf(p), KeyOf(p)>>
           g == get(Now, p)
       IN  /\ last.err = "none"
           /\ Ok(g)
           /\ g.ret.kind = "File"
           /\ g.ret.data = last.args.data
           /\ g.ret.name = basename(p)
           /\ x \in DOMAIN objects /\ objects[x] = last.args.data


-----------------------------------------------------------------------------
(* Match *)

\* the reference the last call of Match or infer_operation_destination made
Made == last.ret.dest

\* the path ends with the separator: what the specification calls a directory
EndsWithSep(p) == p # EMPTY /\ p[Len(p)] = SEP

\* C12: for every path string that Match accepts, is_dir() is true exactly
\* when the normalized path ends with the separator (the root included) and
\* is_file() exactly when it does not; for a file path, filename is the whole
\* last component, of one character or more, and the separator, bucket,
\* separator, prefix and filename concatenate back to the normalized path.
C12_FileIffNoTrailingSeparator ==
    (Called("Match") /\ last.err = "none")
    => LET m == Made
           p == m.path
       IN  /\ is_dir(m) <=> EndsWithSep(p)
           /\ is_file(m) <=> ~EndsWithSep(p)
           /\ ~EndsWithSep(p)
              => /\ m.filename = basename(p)
                 /\ Len(m.filename) >= 1
                 /\ <<SEP>> \o m.bucket \o <<SEP>> \o m.prefix \o m.filename = p

\* C13: for a file reference f and a directory reference d (the root, a bare
\* bucket or a nested directory), infer_operation_destination(f, d) returns
\* a reference with d's bucket, d's directory path as prefix and f's file
\* name; when d is a file reference it returns d unchanged; when f is not a
\* file reference it raises an error.
C13_InferDestination ==
    Called("infer")
    => LET f == FromMatch
           d == ToMatch
           r == Made
       IN  /\ (~EndsWithSep(f.path) /\ EndsWithSep(d.path))
              => /\ last.err = "none"
                 /\ r.bucket = d.bucket
                 /\ r.prefix = d.prefix
                 /\ r.filename = basename(f.path)
                 /\ r.filename = f.filename
           /\ (~EndsWithSep(f.path) /\ ~EndsWithSep(d.path))
              => /\ last.err = "none"
                 /\ r = d
           /\ EndsWithSep(f.path) => last.err = "ValueError"

\* C14: for every path that Match accepts, is_bucket() is true if and only if
\* relative_path is empty and the path is not the root, so is_bucket() is
\* false for the root; bucket, prefix and filename are all empty only for the
\* root.
C14_BucketIsNotRoot ==
    (Called("Match") /\ last.err = "none")
    => LET m == Made
       IN  /\ is_bucket(m) <=> (relative_path(m) = EMPTY /\ ~is_root(m))
           /\ (m.bucket = EMPTY /\ m.prefix = EMPTY /\ m.filename = EMPTY)
              <=> is_root(m)


-----------------------------------------------------------------------------
(* Listings and errors *)

\* C15: listdir of a directory other than the root, with prefix P, returns
\* for each object the store lists under P with key P + c exactly the child
\* name c: only the leading occurrence of P is removed, also when the text
\* of P occurs again in c.
C15_ListdirStripsLeadingPrefix ==
    (Returned("listdir") /\ ~is_root(FromMatch))
    => LET m    == FromMatch
           objs == get_objects_at(Before, m).ret
           kept == SelectSeq(objs, LAMBDA obj : ~last.args.only \/ ~obj.is_dir)
           got  == listdir(Before, last.args.from, last.args.only).ret
       IN  /\ Len(got) = Len(kept)
           /\ \A i \in 1..Len(kept) :
                 /\ StartsWith(kept[i].object_name, m.prefix)
                 /\ got[i] = Drop(kept[i].object_name, Len(m.prefix) + 1)


\* the error kinds of the facade itself
OwnErrors == {"ValueError", "DirectoryNotEmptyError"}

\* C16: every error that get, listdir, rm, rmdir, cp or mv raises is a
\* ValueError or a DirectoryNotEmptyError: when the store works (no store
\* call is made to fail) and merely does not find a bucket or a key, its own
\* error type never reaches the caller.
C16_OnlyOwnErrors ==
    (/\ pc = "done"
     /\ last.op \in {"get", "listdir", "rm", "rmdir", "cp", "mv"}
     /\ last.args.fail = 0)
    => last.err \in OwnErrors \cup {"none"}


\* the directories above the directory path p, the root and the bucket
\* included
Ancestors(p) == {SubSeq(p, 1, i) : i \in {j \in 1..(Len(p) - 1) : p[j] = SEP}}

\* the component of p below its ancestor q, as a directory name
NextComponent(p, q) ==
    SubSeq(p, Len(q) + 1, Len(q) + FirstSep(Drop(p, Len(q) + 1)))

PutsIn(log) == {i \in 1..Len(log) : log[i].op = "put_object"}

\* C17: after mkdirs(p) returns for a directory path p other than the root,
\* having written one marker at most (at p's prefix, none per ancestor),
\* exists(q) and isdir(q) are true for p, for p's bucket and for every
\* directory q above p, and listdir of every directory above p contains the
\* next component of p as a directory name.
C17_MkdirsMakesAncestors ==
    (Returned("mkdirs") /\ ~is_root(FromMatch))
    => LET p == FromMatch.path
       IN  /\ Cardinality(PutsIn(last.log)) <= 1
           /\ \A i \in PutsIn(last.log) : last.log[i].k = FromMatch.prefix
           /\ \A q \in Ancestors(p) \cup {p} :
                 /\ exists(Now, q).ret = TRUE
                 /\ isdir(Now, q).ret = TRUE
           /\ \A q \in Ancestors(p) :
                 LET names == listdir(Now, q, FALSE)
                 IN  /\ Ok(names)
                     /\ \E i \in 1..Len(names.ret) :
                           names.ret[i] = NextComponent(p, q)


-----------------------------------------------------------------------------
(* Termination of the traversals *)

Walking == pc \in {"rmdir", "copy"}

CopyReturned == pc = "done" /\ last.op = "copy_recursively" /\ run.at = "return"

\* copy_recursively in steps leaves what copy_recursively as one action leaves
CopyStepsAgree ==
    CopyReturned
    => LET whole == copy_recursively(Before, run.path, run.to)
       IN  /\ whole.bk = buckets
           /\ whole.ob = objects
           /\ whole.err = last.err
           /\ whole.log = last.log

-----------------------------------------------------------------------------
(* Frames *)

\* C19: rm(p, recursive) on a path p that does not end with the separator
\* removes at most the object with p's key in p's bucket: for either value
\* of recursive and a last component of any length, the bucket is left and
\* every other object is left as it was.
C19_RmRemovesOneObject ==
    (Called("rm") /\ IsFilePath(last.args.from))
    => LET p == last.args.from
           x == <<BucketOf(p), KeyOf(p)>>
       IN  /\ buckets = last.bk0
           /\ DOMAIN objects \subseteq DOMAIN last.ob0
           /\ \A y \in DOMAIN last.ob0 \ {x} : Kept(y)


\* C20: cp never destroys data.  For every from_path, to_path and recursive
\* flag, whether cp returns or raises (a failing store call included), cp
\* makes no delete call, every object that was in the store before the call
\* is still there, and every object at or under the source holds what it held
\* before the call, also when the destination overlaps the source.
C20_CopyDestroysNothing ==
    Called("cp")
    => /\ NoDelete(last.log)
       /\ last.bk0 \subseteq buckets
       /\ DOMAIN last.ob0 \subseteq DOMAIN objects
       /\ FromMatch.ok => \A x \in ObjectsAt(last.ob0, FromMatch) : Kept(x)

====
